---------------------------- MODULE Spec2Model ----------------------------
(***************************************************************************)
(* A model of script_locker (fivem_locker).  The repository holds two     *)
(* variants of the tool:                                                   *)
(*   src/src/fivem_locker   pack_resource, encrypt_xor_stream (packer)     *)
(*   src/tools/fivem_locker process_resource, LockerCrypto, generate_loader*)
(* Bytes are the integers 0..255 and byte strings are sequences of them.   *)
(* A Python int is a little-endian sequence of three 16-bit limbs, so that *)
(* 32-bit values and the wider intermediate values of a shift fit.         *)
(***************************************************************************)
EXTENDS Integers, Sequences, FiniteSets

-----------------------------------------------------------------------------
(* Bounds of the model                                                     *)

MaxPlainLen == 2
MaxFiles == 2

-----------------------------------------------------------------------------
(* Integer arithmetic on limbs                                             *)

W16 == 2^16

RECURSIVE BitXor(_, _, _)
BitXor(a, b, n) ==
    IF n = 0 THEN 0
    ELSE (((a % 2) + (b % 2)) % 2) + 2 * BitXor(a \div 2, b \div 2, n - 1)

\* a ^ b for two bytes, tabulated, and for two 16-bit limbs
XorTable == [a \in 0..255 |-> [b \in 0..255 |-> BitXor(a, b, 8)]]
Xor8(a, b) == XorTable[a][b]
Xor16(a, b) == XorTable[a % 256][b % 256] + 256 * XorTable[a \div 256][b \div 256]

\* x ^ y
PyXor(x, y) == <<Xor16(x[1], y[1]), Xor16(x[2], y[2]), Xor16(x[3], y[3])>>

\* x & 0xFFFFFFFF
Mask32(x) == <<x[1], x[2], 0>>

\* x << k, 0 < k < 16
PyShl(x, k) ==
    LET limb(i) == ((x[i] * 2^k) % W16)
                   + (IF i > 1 THEN x[i - 1] \div 2^(16 - k) ELSE 0)
    IN  <<limb(1), limb(2), limb(3)>>

LimbAt(x, j) == IF j <= 3 THEN x[j] ELSE 0

\* x >> k
PyShr(x, k) ==
    LET q == k \div 16
        r == k % 16
        limb(i) == (LimbAt(x, i + q) \div 2^r)
                   + (LimbAt(x, i + q + 1) % 2^r) * 2^(16 - r)
    IN  <<limb(1), limb(2), limb(3)>>

\* (x * p) & 0xFFFFFFFF for x < 2^32 and a p whose limbs keep the products small
MulMask32(x, p) ==
    LET lo == x[1] * p[1]
    IN  <<lo % W16, (x[2] * p[1] + x[1] * p[2] + lo \div W16) % W16, 0>>

\* how a call ends: it returns a value or raises an error
Returned(v) == [raised |-> "none", value |-> v]
Raised(e) == [raised |-> e, value |-> <<>>]

\* a byte widened to an int
OfByte(b) == <<b, 0, 0>>

\* x & 0xFF
LowByte(x) == x[1] % 256

Min(a, b) == IF a <= b THEN a ELSE b

\* bytes(a ^ b for a, b in zip(s, t))
XorBytes(s, t) == [i \in 1..Min(Len(s), Len(t)) |-> Xor8(s[i], t[i])]

-----------------------------------------------------------------------------
(* src/src/fivem_locker/crypto.py                                          *)

\* 0x811C9DC5
FNV_OFFSET == <<40389, 33052, 0>>
\* 0x01000193
FNV_PRIME == <<403, 256, 0>>

\* the loop of fnv1a32 and _fnv1a32 over data[lo..hi], started from value: the
\* range is folded as its first half and then, from that result v, its second half
RECURSIVE FnvFold(_, _, _, _, _)
FnvFold(value, data, lo, hi, prime) ==
    IF lo > hi THEN value
    ELSE IF lo = hi THEN MulMask32(PyXor(value, OfByte(data[lo])), prime)
    ELSE LET mid == (lo + hi) \div 2
         IN  CHOOSE r \in {FnvFold(v, data, mid + 1, hi, prime) :
                              v \in {FnvFold(value, data, lo, mid, prime)}} : TRUE

fnv1a32(data, seed) == FnvFold(Mask32(seed), data, 1, Len(data), FNV_PRIME)

xorshift32(x) ==
    LET x1 == PyXor(x, Mask32(PyShl(x, 13)))
        x2 == PyXor(x1, Mask32(PyShr(x1, 17)))
        x3 == PyXor(x2, Mask32(PyShl(x2, 5)))
    IN  Mask32(x3)

\* the successive values of `state` in the loop of keystream, n iterations
RECURSIVE XorshiftStates(_, _)
XorshiftStates(state, n) ==
    IF n = 0 THEN <<>>
    ELSE IF n = 1 THEN <<xorshift32(state)>>
    ELSE CHOOSE r \in {first \o XorshiftStates(first[Len(first)], n - (n \div 2)) :
                         first \in {XorshiftStates(state, n \div 2)}} : TRUE

keystream(length, seed) ==
    LET states == XorshiftStates(Mask32(seed), length)
    IN  [i \in 1..length |-> LowByte(states[i])]

\* len(os.urandom(8)) of encrypt_xor_stream, and the header decrypt_xor_stream cuts
SaltLen == 8

\* side_tag.encode("utf-8")
Client == <<99, 108, 105, 101, 110, 116>>
Server == <<115, 101, 114, 118, 101, 114>>
Sides == {Client, Server}

seed_material(key, salt, side_tag) == key \o salt \o side_tag

\* encrypt_xor_stream returning the ciphertext without the salt in front
encrypt_xor_stream_nosalt(plaintext, key, side_tag, urandom) ==
    LET salt == urandom
        seed == fnv1a32(seed_material(key, salt, side_tag), FNV_OFFSET)
        ks == keystream(Len(plaintext), seed)
    IN  XorBytes(plaintext, ks)

\* encrypt_xor_stream with the bytes os.urandom(8) returned
encrypt_xor_stream(plaintext, key, side_tag, urandom) ==
    LET salt == urandom
        seed == fnv1a32(seed_material(key, salt, side_tag), FNV_OFFSET)
        ks == keystream(Len(plaintext), seed)
    IN  salt \o XorBytes(plaintext, ks)

\* decrypt_xor_stream with the length check one byte short
decrypt_xor_stream_offbyone(blob, key, side_tag) ==
    IF Len(blob) < SaltLen - 1 THEN Raised("ValueError")
    ELSE LET salt == SubSeq(blob, 1, Min(SaltLen, Len(blob)))
             ciphertext == SubSeq(blob, SaltLen + 1, Len(blob))
             seed == fnv1a32(seed_material(key, salt, side_tag), FNV_OFFSET)
             ks == keystream(Len(ciphertext), seed)
         IN  Returned(XorBytes(ciphertext, ks))

\* decrypt_xor_stream folding key + side_tag + salt
decrypt_xor_stream_misordered(blob, key, side_tag) ==
    IF Len(blob) < SaltLen THEN Raised("ValueError")
    ELSE LET salt == SubSeq(blob, 1, SaltLen)
             ciphertext == SubSeq(blob, SaltLen + 1, Len(blob))
             seed == fnv1a32(key \o side_tag \o salt, FNV_OFFSET)
             ks == keystream(Len(ciphertext), seed)
         IN  Returned(XorBytes(ciphertext, ks))

decrypt_xor_stream(blob, key, side_tag) ==
    IF Len(blob) < SaltLen THEN Raised("ValueError")
    ELSE LET salt == SubSeq(blob, 1, SaltLen)
             ciphertext == SubSeq(blob, SaltLen + 1, Len(blob))
             seed == fnv1a32(seed_material(key, salt, side_tag), FNV_OFFSET)
             ks == keystream(Len(ciphertext), seed)
         IN  Returned(XorBytes(ciphertext, ks))

-----------------------------------------------------------------------------
(* src/tools/fivem_locker/crypto.py                                        *)

_fnv1a32(data) == FnvFold(FNV_OFFSET, data, 1, Len(data), FNV_PRIME)

_xorshift32(seed) ==
    LET x0 == Mask32(seed)
        x1 == PyXor(x0, Mask32(PyShl(x0, 13)))
        x2 == PyXor(x1, Mask32(PyShr(x1, 17)))
        x3 == PyXor(x2, Mask32(PyShl(x2, 5)))
    IN  Mask32(x3)

\* the successive values of x in the loop of _keystream, n iterations
RECURSIVE _XorshiftStates(_, _)
_XorshiftStates(x, n) ==
    IF n = 0 THEN <<>>
    ELSE IF n = 1 THEN <<_xorshift32(x)>>
    ELSE CHOOSE r \in {first \o _XorshiftStates(first[Len(first)], n - (n \div 2)) :
                         first \in {_XorshiftStates(x, n \div 2)}} : TRUE

_keystream(seed, length) ==
    LET states == _XorshiftStates(seed, length)
    IN  [i \in 1..length |-> LowByte(states[i])]

\* len(os.urandom(12)) of LockerCrypto.encrypt
NonceLen == 12

\* b"XRF\x00"
XRF_TAG == <<88, 82, 70, 0>>

\* "|".encode("utf-8")
Bar == <<124>>

\* (self.license_key + "|" + self.salt).encode("utf-8") + nonce
_derive_material(license_key, salt, nonce) == license_key \o Bar \o salt \o nonce

_derive_seed32(license_key, salt, nonce) == _fnv1a32(_derive_material(license_key, salt, nonce))

\* LockerCrypto(license_key, salt).encrypt(data) with the bytes os.urandom(12) returned
LockerCrypto_encrypt(license_key, salt, data, urandom) ==
    LET nonce == urandom
        seed == _derive_seed32(license_key, salt, nonce)
        ks == _keystream(seed, Len(data))
    IN  XRF_TAG \o nonce \o XorBytes(data, ks)

LockerCrypto_decrypt(license_key, salt, data) == Raised("NotImplementedError")

-----------------------------------------------------------------------------
(* src/tools/fivem_locker/loader.py: the Lua text generate_loader returns, *)
(* as the Lua runtime runs it.  `bit` is the 32-bit BitOp library and `&`  *)
(* the integer operator of Lua 5.3 and later.                              *)

Max(a, b) == IF a >= b THEN a ELSE b

\* string.sub(s, i, j) for i >= 1
lua_sub(s, i, j) == SubSeq(s, i, Min(j, Len(s)))

\* The bytes the Lua lexer reads from a short literal whose body, between the
\* quotes, is text[i..], appended to acc: a quote ends the literal early and leaves
\* text the parser rejects, a backslash starts an escape sequence.
RECURSIVE lua_short_string(_, _, _)
lua_short_string(text, i, acc) ==
    IF i > Len(text) THEN Returned(acc)
    ELSE IF text[i] = 39 \/ text[i] = 10 THEN Raised("LuaSyntaxError")
    ELSE IF text[i] = 92
         THEN IF i = Len(text) THEN Raised("LuaSyntaxError")
              ELSE IF text[i + 1] = 110 THEN lua_short_string(text, i + 2, Append(acc, 10))
              ELSE IF text[i + 1] \in {92, 39, 34}
                   THEN lua_short_string(text, i + 2, Append(acc, text[i + 1]))
              ELSE Raised("LuaSyntaxError")
    ELSE lua_short_string(text, i + 1, Append(acc, text[i]))

\* Template(lua).substitute(salt=salt) puts the salt, as given, between the quotes
\* of  local salt = '$salt'
loader_salt(salt) == lua_short_string(salt, 1, <<>>)

split_tag(data) == <<lua_sub(data, 1, 4), lua_sub(data, 5, 16), lua_sub(data, 17, Len(data))>>

\* bit.bxor, bit.lshift, bit.rshift: the arguments and the result are 32-bit
bit_bxor(a, b) == Mask32(PyXor(Mask32(a), Mask32(b)))
bit_lshift(x, n) == Mask32(PyShl(Mask32(x), n))
bit_rshift(x, n) == PyShr(Mask32(x), n)

\* 2166136261 and 16777619 of decrypt
LUA_FNV_SEED == <<40389, 33052, 0>>
LUA_FNV_MUL == <<403, 256, 0>>

\* fnv1a32_step over mix[lo..hi]
RECURSIVE loader_fnv(_, _, _, _)
loader_fnv(seed, mix, lo, hi) ==
    IF lo > hi THEN seed
    ELSE IF lo = hi
         THEN MulMask32(Mask32(bit_bxor(seed, OfByte(mix[lo]))), LUA_FNV_MUL)
    ELSE LET mid == (lo + hi) \div 2
         IN  CHOOSE r \in {loader_fnv(v, mix, mid + 1, hi) :
                              v \in {loader_fnv(seed, mix, lo, mid)}} : TRUE

loader_xorshift32(x) ==
    LET x1 == bit_bxor(x, bit_lshift(x, 13))
        x2 == bit_bxor(x1, bit_rshift(x1, 17))
        x3 == bit_bxor(x2, bit_lshift(x2, 5))
    IN  Mask32(x3)

\* the successive values of x in the loop  for i=1,#rest
RECURSIVE loader_states(_, _)
loader_states(x, n) ==
    IF n = 0 THEN <<>>
    ELSE IF n = 1 THEN <<loader_xorshift32(x)>>
    ELSE CHOOSE r \in {first \o loader_states(first[Len(first)], n - (n \div 2)) :
                         first \in {loader_states(x, n \div 2)}} : TRUE

\* lic .. '|' .. salt .. nonce
loader_mix(lic, salt, nonce) == lic \o Bar \o salt \o nonce

\* decrypt(data) of the loader generated with `salt`, lic being what get_license returns
loader_decrypt(data, lic, salt) ==
    LET parts == split_tag(data)
        tag == parts[1]
        nonce == parts[2]
        rest == parts[3]
        lsalt == loader_salt(salt)
    IN  IF lsalt.raised # "none" THEN Raised("LuaSyntaxError")
        ELSE IF tag = XRF_TAG
             THEN LET mix == loader_mix(lic, lsalt.value, nonce)
                      seed == loader_fnv(LUA_FNV_SEED, mix, 1, Len(mix))
                      xs == loader_states(seed, Len(rest))
                  IN  Returned([i \in 1..Len(rest) |-> Xor8(rest[i], LowByte(xs[i]))])
             ELSE Raised("Unknown blob tag")

-----------------------------------------------------------------------------
(* Paths, dicts and text: what pathlib, dict, sorted, json and str do on    *)
(* the byte strings of the model (printable ASCII names)                    *)

\* str.startswith
startswith(s, prefix) == Len(s) >= Len(prefix) /\ SubSeq(s, 1, Len(prefix)) = prefix

\* str.lower
lower(s) == [i \in 1..Len(s) |-> IF s[i] >= 65 /\ s[i] <= 90 THEN s[i] + 32 ELSE s[i]]

\* str.rfind(chr(b)) + 1
rfind(s, b) ==
    LET at == {i \in 1..Len(s) : s[i] = b}
    IN  IF at = {} THEN 0 ELSE CHOOSE i \in at : \A j \in at : j <= i

\* PurePath.name, PurePath.parent ("" for "."), PurePath.suffix
path_name(p) == SubSeq(p, rfind(p, 47) + 1, Len(p))
path_parent(p) == SubSeq(p, 1, rfind(p, 47) - 1)
path_suffix(p) ==
    LET name == path_name(p)
        i == rfind(name, 46)
    IN  IF 1 < i /\ i < Len(name) THEN SubSeq(name, i, Len(name)) ELSE <<>>

\* the directories mkdir(parents=True) makes below the root for the directory d
RECURSIVE path_parents(_)
path_parents(d) == IF d = <<>> THEN {} ELSE {d} \cup path_parents(path_parent(d))

LUA_SUFFIX == <<46, 108, 117, 97>>
FXMANIFEST == <<102, 120, 109, 97, 110, 105, 102, 101, 115, 116, 46, 108, 117, 97>>
RESOURCE_LUA == <<95, 95, 114, 101, 115, 111, 117, 114, 99, 101, 46, 108, 117, 97>>
CLIENT_DIR == <<99, 108, 105, 101, 110, 116, 47>>
SERVER_DIR == <<115, 101, 114, 118, 101, 114, 47>>
SHARED_DIR == <<115, 104, 97, 114, 101, 100, 47>>

\* x in list
InList(x, list) == \E i \in 1..Len(list) : list[i] = x

\* a dict is the sequence of its items [name, content] in insertion order
dict_keys(d) == [i \in 1..Len(d) |-> d[i].name]
dict_get(d, name) == d[CHOOSE i \in 1..Len(d) : d[i].name = name].content
dict_set(d, name, content) ==
    IF \E i \in 1..Len(d) : d[i].name = name
    THEN [i \in 1..Len(d) |-> IF d[i].name = name
                              THEN [name |-> name, content |-> content] ELSE d[i]]
    ELSE Append(d, [name |-> name, content |-> content])

\* a < b for two str of ASCII characters, or two bytes
LexLess(a, b) ==
    \E i \in 1..(Min(Len(a), Len(b)) + 1) :
        /\ \A j \in 1..(i - 1) : a[j] = b[j]
        /\ i <= Len(b)
        /\ (i <= Len(a) => a[i] < b[i])

\* sorted(names)
RECURSIVE SortSet(_)
SortSet(S) ==
    IF S = {} THEN <<>>
    ELSE LET least == CHOOSE a \in S : \A b \in S \ {a} : LexLess(a, b)
         IN  <<least>> \o SortSet(S \ {least})

sorted(names) == SortSet({names[i] : i \in 1..Len(names)})

\* sep.join(parts)
RECURSIVE join(_, _)
join(sep, parts) ==
    IF parts = <<>> THEN <<>>
    ELSE IF Len(parts) = 1 THEN parts[1]
    ELSE parts[1] \o sep \o join(sep, Tail(parts))

\* str(n) for n >= 0
RECURSIVE str_int(_)
str_int(n) == IF n < 10 THEN <<48 + n>> ELSE Append(str_int(n \div 10), 48 + (n % 10))

\* json.dumps of a str of printable ASCII characters
json_str(s) ==
    LET esc(c) == IF c = 34 \/ c = 92 THEN <<92, c>> ELSE <<c>>
    IN  <<34>> \o join(<<>>, [i \in 1..Len(s) |-> esc(s[i])]) \o <<34>>

\* json.dumps({"toc": toc, "files": files}, separators=(",", ":")).encode("utf-8")
\* where toc is a sequence of <<name, length>> in the order of the dict
json_dumps(toc, files) ==
    LET item(i) == json_str(toc[i][1]) \o <<58>> \o str_int(toc[i][2])
    IN  <<123, 34, 116, 111, 99, 34, 58, 123>>
            \o join(<<44>>, [i \in 1..Len(toc) |-> item(i)])
            \o <<125, 44, 34, 102, 105, 108, 101, 115, 34, 58, 91>>
            \o join(<<44>>, [i \in 1..Len(files) |-> json_str(files[i])])
            \o <<93, 125>>

-----------------------------------------------------------------------------
(* src/tools/fivem_locker/lua_minify.py and core.py: build_blob             *)

\* str.strip() and re.sub(r"\n+", "\n", source)
IsSpace(c) == c \in {9, 10, 11, 12, 13, 28, 29, 30, 31, 32}
strip(s) ==
    LET keep == {i \in 1..Len(s) : ~IsSpace(s[i])}
    IN  IF keep = {} THEN <<>>
        ELSE SubSeq(s, CHOOSE i \in keep : \A j \in keep : i <= j,
                       CHOOSE i \in keep : \A j \in keep : j <= i)

RECURSIVE collapse_newlines(_)
collapse_newlines(s) ==
    IF Len(s) < 2 THEN s
    ELSE IF s[1] = 10 /\ s[2] = 10 THEN collapse_newlines(Tail(s))
    ELSE <<s[1]>> \o collapse_newlines(Tail(s))

\* minify_lua(source) for a source without comments and with no keyword or
\* white space outside its strings: the substitutions of lines 16-31 leave
\* such a source as it is, the final tidy of line 34 acts on it
minify_lua(source) == strip(collapse_newlines(source))

BUNDLE_SPLIT == <<10, 10, 45, 45, 91, 91, 66, 85, 78, 68, 76, 69, 95, 83, 80, 76, 73,
                  84, 93, 93, 10, 10>>
META_SPLIT == <<10, 10, 45, 45, 91, 91, 77, 69, 84, 65, 95, 83, 80, 76, 73, 84, 93, 93,
                10, 10>>

\* the bytes build_blob hands to crypto.encrypt
build_payload(bundled) ==
    LET toc == [i \in 1..Len(bundled) |-> <<bundled[i].name, Len(bundled[i].content)>>]
        files == sorted(dict_keys(bundled))
        concat == join(BUNDLE_SPLIT, [i \in 1..Len(files) |-> dict_get(bundled, files[i])])
        meta == json_dumps(toc, files)
    IN  meta \o META_SPLIT \o concat

build_blob(bundled, license_key, salt, urandom) ==
    LockerCrypto_encrypt(license_key, salt, build_payload(bundled), urandom)

-----------------------------------------------------------------------------
(* src/tools/fivem_locker/loader.py: split_meta and explode_bundle          *)

\* string.find(s, pattern, init, true), 0 for nil
string_find(s, pattern, init) ==
    LET at == {i \in init..(Len(s) - Len(pattern) + 1) :
                  SubSeq(s, i, i + Len(pattern) - 1) = pattern}
    IN  IF at = {} THEN 0 ELSE CHOOSE i \in at : \A j \in at : i <= j

\* meta, body = split_meta(payload)
split_meta(payload) ==
    LET i == string_find(payload, META_SPLIT, 1)
    IN  IF i = 0 THEN Raised("Malformed payload")
        ELSE Returned(<<lua_sub(payload, 1, i - 1),
                        lua_sub(payload, i + Len(META_SPLIT), Len(payload))>>)

RECURSIVE explode_from(_, _, _)
explode_from(body, idx, parts) ==
    LET j == string_find(body, BUNDLE_SPLIT, idx)
    IN  IF j = 0 THEN Append(parts, lua_sub(body, idx, Len(body)))
        ELSE explode_from(body, j + Len(BUNDLE_SPLIT), Append(parts, lua_sub(body, idx, j - 1)))

explode_bundle(body) == explode_from(body, 1, <<>>)

-----------------------------------------------------------------------------
(* The cipher calls: one round of inputs, an encryption, a decryption      *)

VARIABLES inp, enc, dec

\* the file system a run of the tool starts from and its arguments (fs), the
\* output directory (outdir) and the local variables of the run (run)
VARIABLES fs, outdir, run

pvars == <<fs, outdir, run>>

\* no run of process_resource or pack_resource is under way
NoRun == [pc |-> "none"]
NoFs == [res_exists |-> FALSE]
NoOutdir == [exists |-> FALSE]

\* "k", "abc123"
Keys == {<<107>>, <<97, 98, 99, 49, 50, 51>>}

\* the default of --salt, "fivem-locker"; "s"; a backslash followed by n
DefaultSalt == <<102, 105, 118, 101, 109, 45, 108, 111, 99, 107, 101, 114>>
Salts == {DefaultSalt, <<115>>, <<92, 110>>}

PlainBytes == {97, 255}

RECURSIVE SeqsUpTo(_, _)
SeqsUpTo(S, n) ==
    IF n = 0 THEN {<<>>}
    ELSE LET shorter == SeqsUpTo(S, n - 1)
         IN  shorter \cup {Append(q, b) : q \in shorter, b \in S}

Plaintexts == SeqsUpTo(PlainBytes, MaxPlainLen)

\* what os.urandom may return: two byte strings, cut to the length asked for
RandomPool == {<<88, 91, 94, 97, 100, 103, 106, 109, 112, 115, 118, 121>>,
               <<0, 255, 16, 7, 201, 33, 150, 92, 39, 10, 64, 128>>}

NoEnc == [call |-> "none"]
NoDec == [call |-> "none"]

CryptoInit ==
    /\ inp \in [plaintext : Plaintexts, key : Keys, salt : Salts, role : Sides,
                random : RandomPool]
    /\ enc = NoEnc
    /\ dec = NoDec
    /\ fs = NoFs
    /\ outdir = NoOutdir
    /\ run = NoRun

\* encrypt_xor_stream(plaintext, key, side_tag=role)
EncryptXorStream ==
    /\ enc.call = "none"
    /\ LET urandom == SubSeq(inp.random, 1, SaltLen)
           material == seed_material(inp.key, urandom, inp.role)
       IN  enc' = [call |-> "encrypt_xor_stream", plaintext |-> inp.plaintext,
                   key |-> inp.key, salt |-> <<>>, role |-> inp.role,
                   nonce |-> urandom, material |-> material,
                   seed |-> fnv1a32(material, FNV_OFFSET),
                   blob |-> encrypt_xor_stream(inp.plaintext, inp.key, inp.role, urandom)]
    /\ UNCHANGED <<inp, dec>>
    /\ UNCHANGED pvars

\* decrypt_xor_stream(blob, key, side_tag) on the blob or on its first n bytes
DecryptXorStream ==
    /\ enc.call = "encrypt_xor_stream"
    /\ dec.call = "none"
    /\ \E n \in 0..Len(enc.blob), k \in Keys, side \in Sides :
          /\ n = Len(enc.blob) \/ (k = enc.key /\ side = enc.role)
          /\ LET blob == SubSeq(enc.blob, 1, n)
             IN  dec' = [call |-> "decrypt_xor_stream", blob |-> blob, key |-> k,
                         salt |-> <<>>, role |-> side,
                         out |-> decrypt_xor_stream(blob, k, side)]
    /\ UNCHANGED <<inp, enc>>
    /\ UNCHANGED pvars

\* LockerCrypto(license_key, salt).encrypt(data), called by build_blob for the
\* bundle of side `role`
LockerEncrypt ==
    /\ enc.call = "none"
    /\ LET urandom == SubSeq(inp.random, 1, NonceLen)
       IN  enc' = [call |-> "LockerCrypto.encrypt", plaintext |-> inp.plaintext,
                   key |-> inp.key, salt |-> inp.salt, role |-> inp.role,
                   nonce |-> urandom,
                   material |-> _derive_material(inp.key, inp.salt, urandom),
                   seed |-> _derive_seed32(inp.key, inp.salt, urandom),
                   blob |-> LockerCrypto_encrypt(inp.key, inp.salt, inp.plaintext, urandom)]
    /\ UNCHANGED <<inp, dec>>
    /\ UNCHANGED pvars

\* LockerCrypto(license_key, salt).decrypt(data) on the blob or on its first n bytes
LockerDecrypt ==
    /\ enc.call = "LockerCrypto.encrypt"
    /\ dec.call = "none"
    /\ \E n \in 0..Len(enc.blob) :
          LET blob == SubSeq(enc.blob, 1, n)
          IN  dec' = [call |-> "LockerCrypto.decrypt", blob |-> blob, key |-> enc.key,
                      salt |-> enc.salt, role |-> enc.role,
                      out |-> LockerCrypto_decrypt(enc.key, enc.salt, blob)]
    /\ UNCHANGED <<inp, enc>>
    /\ UNCHANGED pvars

\* decrypt(blob) in the loader generate_loader(role=side, salt=salt) returned, with
\* the licence lic in the convar, on the blob or on its first n bytes
LoaderDecrypt ==
    /\ enc.call = "LockerCrypto.encrypt"
    /\ dec.call = "none"
    /\ \E n \in 0..Len(enc.blob), lic \in Keys, salt \in Salts, side \in Sides :
          /\ n = Len(enc.blob) \/ (lic = enc.key /\ salt = enc.salt /\ side = enc.role)
          /\ LET blob == SubSeq(enc.blob, 1, n)
             IN  dec' = [call |-> "loader.decrypt", blob |-> blob, key |-> lic,
                         salt |-> salt, role |-> side,
                         out |-> loader_decrypt(blob, lic, salt)]
    /\ UNCHANGED <<inp, enc>>
    /\ UNCHANGED pvars

vars == <<inp, enc, dec, fs, outdir, run>>

CryptoNext ==
    \/ EncryptXorStream
    \/ DecryptXorStream
    \/ LockerEncrypt
    \/ LockerDecrypt
    \/ LoaderDecrypt

SpecCrypto == CryptoInit /\ [][CryptoNext]_vars

-----------------------------------------------------------------------------
(* src/tools/fivem_locker/core.py: process_resource(resource_dir,           *)
(* output_dir, license_key, salt), statement by statement                   *)

\* "client.blob", "server.blob", "client.lua", "server.lua"
CLIENT_BLOB == <<99, 108, 105, 101, 110, 116, 46, 98, 108, 111, 98>>
SERVER_BLOB == <<115, 101, 114, 118, 101, 114, 46, 98, 108, 111, 98>>
CLIENT_LUA == <<99, 108, 105, 101, 110, 116, 46, 108, 117, 97>>
SERVER_LUA == <<115, 101, 114, 118, 101, 114, 46, 108, 117, 97>>

\* "client/a.lua", "shared/c.lua", "z.lua", "b.lua", "img.png"
CLIENT_A == <<99, 108, 105, 101, 110, 116, 47, 97, 46, 108, 117, 97>>
SHARED_C == <<115, 104, 97, 114, 101, 100, 47, 99, 46, 108, 117, 97>>
Z_LUA == <<122, 46, 108, 117, 97>>
B_LUA == <<98, 46, 108, 117, 97>>
IMG_PNG == <<105, 109, 103, 46, 112, 110, 103>>
OLD_TXT == <<111, 108, 100, 46, 116, 120, 116>>

\* with "a/fxmanifest.lua", a file named as a manifest in a directory below
ResourcePaths == {CLIENT_A, SHARED_C, Z_LUA, B_LUA, IMG_PNG, <<97, 47>> \o FXMANIFEST}

\* what the files of a resource hold: "x=1", nothing, a long string of two
\* newlines, "b", three bytes of an image
SourceOf(path) ==
    CASE path = CLIENT_A -> <<120, 61, 49>>
      [] path = SHARED_C -> <<>>
      [] path = Z_LUA -> <<91, 91, 10, 10, 93, 93>>
      [] path = B_LUA -> <<98>>
      [] OTHER -> <<80, 78, 71>>

\* the resources of the model hold at most MaxFiles files beside the manifest
ResourceFileSets == {S \in SUBSET ResourcePaths : Cardinality(S) <= MaxFiles}

\* the script lists a manifest may hold, as _extract_block_list returns them
ClientLists == {<<>>, <<Z_LUA>>, <<B_LUA>>, <<Z_LUA, B_LUA>>, <<B_LUA, Z_LUA>>,
                <<Z_LUA, Z_LUA>>}
ServerLists == {<<>>, <<Z_LUA>>}
SharedLists == {<<>>, <<Z_LUA>>}
NoManifest == [present |-> FALSE, client_scripts |-> <<>>, server_scripts |-> <<>>,
               shared_scripts |-> <<>>]
Manifests ==
    {NoManifest} \cup [present : {TRUE}, client_scripts : ClientLists,
                       server_scripts : ServerLists, shared_scripts : SharedLists]

\* the output directory before the run: missing, or holding a file old.txt
StaleEntry == [path |-> OLD_TXT, kind |-> "stale", bytes |-> <<111>>]
OutputsBefore == {[exists |-> FALSE, dirs |-> {}, files |-> {}],
                  [exists |-> TRUE, dirs |-> {}, files |-> {StaleEntry}]}

\* path.write_bytes, path.write_text and shutil.copy2 to output_dir / path
WriteFile(dir, path, kind, bytes) ==
    [dir EXCEPT !.files = {f \in @ : f.path # path}
                              \cup {[path |-> path, kind |-> kind, bytes |-> bytes]}]

\* ensure_dir(output_dir / d)
ensure_dir(dir, d) == [dir EXCEPT !.exists = TRUE, !.dirs = @ \cup path_parents(d)]

\* shutil.rmtree(output_dir)
rmtree(dir) == [exists |-> FALSE, dirs |-> {}, files |-> {}]

\* the name compared instead of the suffix
is_lua_by_name(path) == lower(path_name(path)) = LUA_SUFFIX

\* is_lua of iter_files
is_lua(path) == lower(path_suffix(path)) = LUA_SUFFIX

is_manifest_name(path) == lower(path_name(path)) \in {FXMANIFEST, RESOURCE_LUA}

\* the files root.rglob("*") yields
iter_files(f) == f.files \cup (IF f.manifest.present THEN {FXMANIFEST} ELSE {})

\* read_manifest(resource_dir): the lists of the manifest file, empty lists
\* when there is neither fxmanifest.lua nor __resource.lua
read_manifest(f) == IF f.manifest.present THEN f.manifest ELSE NoManifest

is_client(rel_str, manifest) ==
    InList(rel_str, manifest.client_scripts) \/ startswith(rel_str, CLIENT_DIR)
is_server(rel_str, manifest) ==
    InList(rel_str, manifest.server_scripts) \/ startswith(rel_str, SERVER_DIR)
is_shared(rel_str, manifest) ==
    InList(rel_str, manifest.shared_scripts) \/ startswith(rel_str, SHARED_DIR)

\* the conditions of the two assignments to bundled_client and bundled_server
in_client_bundle(rel_str, manifest) ==
    is_client(rel_str, manifest) \/ is_shared(rel_str, manifest)

in_server_bundle_nodefault(rel_str, manifest) ==
    is_server(rel_str, manifest) \/ is_shared(rel_str, manifest)

in_server_bundle(rel_str, manifest) ==
    \/ is_server(rel_str, manifest)
    \/ is_shared(rel_str, manifest)
    \/ (~is_client(rel_str, manifest) /\ ~is_shared(rel_str, manifest))

Init ==
    /\ fs \in {f \in [res_exists : BOOLEAN, manifest : Manifests,
                      files : ResourceFileSets, license_key : {<<97, 98, 99, 49, 50, 51>>},
                      salt : {DefaultSalt}, out0 : OutputsBefore] :
                  ~f.res_exists => (f.files = {} /\ f.manifest = NoManifest)}
    /\ outdir = fs.out0
    /\ run = [pc |-> "start", error |-> "none", manifest |-> NoManifest, todo |-> {},
              bundled_client |-> <<>>, bundled_server |-> <<>>,
              payload_client |-> <<>>, payload_server |-> <<>>]
    /\ inp = [call |-> "none"]
    /\ enc = NoEnc
    /\ dec = NoDec

\* lines 40-41: the resource directory is missing
ResourceMissing ==
    /\ run.pc = "start"
    /\ ~fs.res_exists
    /\ run' = [run EXCEPT !.pc = "failed", !.error = "FileNotFoundError"]
    /\ UNCHANGED <<fs, outdir, inp, enc, dec>>

\* lines 40-46: the resource directory is there, the output directory is
\* removed if it exists and made anew
CleanOutput ==
    /\ run.pc = "start"
    /\ fs.res_exists
    /\ outdir' = ensure_dir(IF outdir.exists THEN rmtree(outdir) ELSE outdir, <<>>)
    /\ run' = [run EXCEPT !.pc = "manifest"]
    /\ UNCHANGED <<fs, inp, enc, dec>>

\* lines 48-54
ReadManifest ==
    /\ run.pc = "manifest"
    /\ run' = [run EXCEPT !.pc = "files", !.manifest = read_manifest(fs),
                          !.todo = iter_files(fs)]
    /\ UNCHANGED <<fs, outdir, inp, enc, dec>>

\* lines 57-77: one round of the loop, for the entry rglob yields next
ProcessEntry ==
    /\ run.pc = "files"
    /\ \E rel_path \in run.todo :
          LET made == ensure_dir(outdir, path_parent(rel_path))
              content == minify_lua(SourceOf(rel_path))
          IN  /\ IF is_manifest_name(rel_path)
                 THEN outdir' = made /\ run' = [run EXCEPT !.todo = @ \ {rel_path}]
                 ELSE IF is_lua(rel_path)
                 THEN /\ outdir' = made
                      /\ run' = [run EXCEPT
                            !.todo = @ \ {rel_path},
                            !.bundled_client =
                                IF in_client_bundle(rel_path, run.manifest)
                                THEN dict_set(@, rel_path, content) ELSE @,
                            !.bundled_server =
                                IF in_server_bundle(rel_path, run.manifest)
                                THEN dict_set(@, rel_path, content) ELSE @]
                 ELSE /\ outdir' = WriteFile(made, rel_path, "copy", SourceOf(rel_path))
                      /\ run' = [run EXCEPT !.todo = @ \ {rel_path}]
    /\ UNCHANGED <<fs, inp, enc, dec>>

\* lines 79-93: both blobs are built and written; os.urandom returns r1 to the
\* first call of crypto.encrypt and another value r2 to the second
WriteBlobs ==
    /\ run.pc = "files"
    /\ run.todo = {}
    /\ \E r1 \in RandomPool : \E r2 \in RandomPool \ {r1} :
          LET blob_client == build_blob(run.bundled_client, fs.license_key, fs.salt, r1)
              blob_server == build_blob(run.bundled_server, fs.license_key, fs.salt, r2)
          IN  outdir' = WriteFile(WriteFile(outdir, CLIENT_BLOB, "blob", blob_client),
                                  SERVER_BLOB, "blob", blob_server)
    /\ run' = [run EXCEPT !.pc = "loaders",
                          !.payload_client = build_payload(run.bundled_client),
                          !.payload_server = build_payload(run.bundled_server)]
    /\ UNCHANGED <<fs, inp, enc, dec>>

\* lines 96-100: the two loaders generate_loader returns are written
WriteLoaders ==
    /\ run.pc = "loaders"
    /\ outdir' = WriteFile(WriteFile(outdir, CLIENT_LUA, "loader", Client),
                           SERVER_LUA, "loader", Server)
    /\ run' = [run EXCEPT !.pc = "new_manifest"]
    /\ UNCHANGED <<fs, inp, enc, dec>>

\* lines 103-118: write_manifest(output_dir, new_manifest)
WriteManifest ==
    /\ run.pc = "new_manifest"
    /\ outdir' = WriteFile(outdir, FXMANIFEST, "manifest", <<>>)
    /\ run' = [run EXCEPT !.pc = "done"]
    /\ UNCHANGED <<fs, inp, enc, dec>>

Next ==
    \/ ResourceMissing
    \/ CleanOutput
    \/ ReadManifest
    \/ ProcessEntry
    \/ WriteBlobs
    \/ WriteLoaders
    \/ WriteManifest

Spec == Init /\ [][Next]_vars

-----------------------------------------------------------------------------
(* src/src/fivem_locker/packer.py: pack_resource(resource_dir, out_dir,     *)
(* key, include_client, include_server)                                     *)

\* "bundle_client.b64", "bundle_server.b64", "loader_client.lua",
\* "loader_server.lua", "LOCKER_INFO.txt"
BUNDLE_CLIENT == <<98, 117, 110, 100, 108, 101, 95, 99, 108, 105, 101, 110, 116, 46, 98,
                   54, 52>>
BUNDLE_SERVER == <<98, 117, 110, 100, 108, 101, 95, 115, 101, 114, 118, 101, 114, 46, 98,
                   54, 52>>
LOADER_CLIENT == <<108, 111, 97, 100, 101, 114, 95, 99, 108, 105, 101, 110, 116, 46, 108,
                   117, 97>>
LOADER_SERVER == <<108, 111, 97, 100, 101, 114, 95, 115, 101, 114, 118, 101, 114, 46, 108,
                   117, 97>>
LOCKER_INFO == <<76, 79, 67, 75, 69, 82, 95, 73, 78, 70, 79, 46, 116, 120, 116>>

\* base64.b64encode(data).decode("ascii")
B64Char(i) ==
    IF i < 26 THEN 65 + i
    ELSE IF i < 52 THEN 97 + (i - 26)
    ELSE IF i < 62 THEN 48 + (i - 52)
    ELSE IF i = 62 THEN 43 ELSE 47

b64_encode(data) ==
    LET at(j) == IF j <= Len(data) THEN data[j] ELSE 0
        group(g) == at(3 * g - 2) * 65536 + at(3 * g - 1) * 256 + at(3 * g)
        char(k) ==
            LET g == (k + 3) \div 4
                pos == (k - 1) % 4
                v == group(g)
            IN  IF pos = 0 THEN B64Char(v \div 262144)
                ELSE IF pos = 1 THEN B64Char((v \div 4096) % 64)
                ELSE IF pos = 2
                     THEN IF 3 * g - 1 > Len(data) THEN 61 ELSE B64Char((v \div 64) % 64)
                     ELSE IF 3 * g > Len(data) THEN 61 ELSE B64Char(v % 64)
    IN  [k \in 1..(4 * ((Len(data) + 2) \div 3)) |-> char(k)]

\* bytes.hex()
hex(data) ==
    LET digit(d) == IF d < 10 THEN 48 + d ELSE 97 + (d - 10)
    IN  [k \in 1..(2 * Len(data)) |->
            IF k % 2 = 1 THEN digit(data[(k + 1) \div 2] \div 16)
            ELSE digit(data[k \div 2] % 16)]

\* what os.urandom(16) may return
RandomKeys == {p \o SubSeq(p, 1, 4) : p \in RandomPool}

\* path.exists() and path.is_file() below resource_dir
is_file(f, path) == path \in f.files \/ (f.manifest.present /\ path = FXMANIFEST)

\* _parse_manifest(manifest_path): the three script lists
_parse_manifest(f) ==
    [client |-> f.manifest.client_scripts, server |-> f.manifest.server_scripts,
     shared |-> f.manifest.shared_scripts]

\* resource_dir.glob(rel) for an entry without wildcards
glob(f, rel) == IF is_file(f, rel) THEN <<rel>> ELSE <<>>

\* the list `files` of _gather_files after its first loop
RECURSIVE gather_matches(_, _)
gather_matches(f, rel_paths) ==
    IF rel_paths = <<>> THEN <<>>
    ELSE LET rel == Head(rel_paths)
             matches == glob(f, rel)
             found == IF matches # <<>>
                      THEN SelectSeq(matches, LAMBDA m : is_file(f, m) /\ is_lua(m))
                      ELSE IF is_file(f, rel) /\ is_lua(rel) THEN <<rel>> ELSE <<>>
         IN  found \o gather_matches(f, Tail(rel_paths))

\* "Deduplicate while preserving order"
RECURSIVE unique(_, _)
unique(files, seen) ==
    IF files = <<>> THEN <<>>
    ELSE IF Head(files) \in seen THEN unique(Tail(files), seen)
    ELSE <<Head(files)>> \o unique(Tail(files), seen \cup {Head(files)})

_gather_files(f, rel_paths) == unique(gather_matches(f, rel_paths), {})

FLOK_HEADER == <<70, 76, 79, 75, 49, 10>>

RECURSIVE flok_entries(_)
flok_entries(file_paths) ==
    IF file_paths = <<>> THEN <<>>
    ELSE LET rel == Head(file_paths)
             code == SourceOf(rel)
         IN  <<80, 58>> \o str_int(Len(rel)) \o <<10>> \o rel
                 \o <<67, 58>> \o str_int(Len(code)) \o <<10>> \o code
                 \o flok_entries(Tail(file_paths))

_build_bundle_blob(file_paths) ==
    FLOK_HEADER \o <<78, 58>> \o str_int(Len(file_paths)) \o <<10>>
        \o flok_entries(file_paths)

\* the lists of line 172 and line 173
client_files_of(f) ==
    IF f.include_client
    THEN _gather_files(f, _parse_manifest(f).client) \o _gather_files(f, _parse_manifest(f).shared)
    ELSE <<>>
\* line 173 without the shared scripts
server_files_of_noshared(f) ==
    IF f.include_server THEN _gather_files(f, _parse_manifest(f).server) ELSE <<>>

server_files_of(f) ==
    IF f.include_server
    THEN _gather_files(f, _parse_manifest(f).server) \o _gather_files(f, _parse_manifest(f).shared)
    ELSE <<>>

\* the keys --key may give; <<>> stands for None
PackerKeys == {<<>>, <<97, 98, 99, 49, 50, 51>>}

PackerFileSets == {S \in SUBSET {Z_LUA, B_LUA, IMG_PNG} : Cardinality(S) <= MaxFiles}

PackerInit ==
    /\ fs \in {f \in [res_exists : BOOLEAN, manifest : Manifests, files : PackerFileSets,
                      key : PackerKeys, include_client : BOOLEAN,
                      include_server : BOOLEAN, out0 : OutputsBefore] :
                  ~f.res_exists => (f.files = {} /\ f.manifest = NoManifest)}
    /\ outdir = fs.out0
    /\ run = [pc |-> "start", error |-> "none", client_files |-> <<>>,
              server_files |-> <<>>, key_str |-> <<>>, client_blob |-> <<>>,
              server_blob |-> <<>>, client_bundle_name |-> <<>>,
              server_bundle_name |-> <<>>]
    /\ inp = [call |-> "none"]
    /\ enc = NoEnc
    /\ dec = NoDec

\* lines 158-169: the resource directory or both manifest files are missing
PackNotFound ==
    /\ run.pc = "start"
    /\ ~fs.res_exists \/ ~fs.manifest.present
    /\ run' = [run EXCEPT !.pc = "failed", !.error = "FileNotFoundError"]
    /\ UNCHANGED <<fs, outdir, inp, enc, dec>>

\* lines 171-179: the lists of files, out.mkdir(parents=True, exist_ok=True)
\* and the key, given or drawn
PackGather ==
    /\ run.pc = "start"
    /\ fs.res_exists /\ fs.manifest.present
    /\ \E random \in RandomKeys :
          run' = [run EXCEPT !.pc = "client",
                             !.client_files = client_files_of(fs),
                             !.server_files = server_files_of(fs),
                             !.key_str = IF fs.key # <<>> THEN fs.key ELSE hex(random)]
    /\ outdir' = [outdir EXCEPT !.exists = TRUE]
    /\ UNCHANGED <<fs, inp, enc, dec>>

\* lines 184-191
PackClient ==
    /\ run.pc = "client"
    /\ IF run.client_files # <<>>
       THEN \E urandom \in RandomPool :
               LET client_blob == _build_bundle_blob(run.client_files)
                   client_encrypted ==
                       encrypt_xor_stream(client_blob, run.key_str, Client,
                                          SubSeq(urandom, 1, SaltLen))
               IN  /\ outdir' = WriteFile(WriteFile(outdir, BUNDLE_CLIENT, "b64",
                                                    b64_encode(client_encrypted)),
                                          LOADER_CLIENT, "loader", Client)
                   /\ run' = [run EXCEPT !.pc = "server", !.client_blob = client_blob,
                                         !.client_bundle_name = BUNDLE_CLIENT]
       ELSE outdir' = outdir /\ run' = [run EXCEPT !.pc = "server"]
    /\ UNCHANGED <<fs, inp, enc, dec>>

\* lines 193-200
PackServer ==
    /\ run.pc = "server"
    /\ IF run.server_files # <<>>
       THEN \E urandom \in RandomPool :
               LET server_blob == _build_bundle_blob(run.server_files)
                   server_encrypted ==
                       encrypt_xor_stream(server_blob, run.key_str, Server,
                                          SubSeq(urandom, 1, SaltLen))
               IN  /\ outdir' = WriteFile(WriteFile(outdir, BUNDLE_SERVER, "b64",
                                                    b64_encode(server_encrypted)),
                                          LOADER_SERVER, "loader", Server)
                   /\ run' = [run EXCEPT !.pc = "info", !.server_blob = server_blob,
                                         !.server_bundle_name = BUNDLE_SERVER]
       ELSE outdir' = outdir /\ run' = [run EXCEPT !.pc = "info"]
    /\ UNCHANGED <<fs, inp, enc, dec>>

\* lines 202-213: _write_manifest and LOCKER_INFO.txt
PackInfo ==
    /\ run.pc = "info"
    /\ outdir' = WriteFile(WriteFile(outdir, FXMANIFEST, "manifest",
                                     run.client_bundle_name \o run.server_bundle_name),
                           LOCKER_INFO, "info", run.key_str)
    /\ run' = [run EXCEPT !.pc = "done"]
    /\ UNCHANGED <<fs, inp, enc, dec>>

PackerNext ==
    \/ PackNotFound
    \/ PackGather
    \/ PackClient
    \/ PackServer
    \/ PackInfo

SpecPacker == PackerInit /\ [][PackerNext]_vars

-----------------------------------------------------------------------------
(* Properties of the cipher calls, checked under SpecCrypto                *)

\* the decryption got the whole blob of the encryption and its key and salt
SameKeyAndBlob ==
    /\ dec.call # "none"
    /\ dec.blob = enc.blob
    /\ dec.key = enc.key
    /\ dec.salt = enc.salt

PythonDecrypts == {"decrypt_xor_stream", "LockerCrypto.decrypt"}

\* len(tag) + len(nonce) of the blob the call reads
HeaderLen(call) ==
    IF call = "decrypt_xor_stream" THEN SaltLen ELSE Len(XRF_TAG) + NonceLen

\* C1, as stated: decrypt(encrypt(p, k, s, r), k, s, r) returns exactly p, for
\* encrypt_xor_stream / decrypt_xor_stream and for LockerCrypto.encrypt /
\* LockerCrypto.decrypt.
C1_SelfInverse ==
    (dec.call \in PythonDecrypts /\ SameKeyAndBlob /\ dec.role = enc.role)
        => dec.out = Returned(enc.plaintext)

\* C1, amended: decrypt_xor_stream(encrypt_xor_stream(p, k, r), k, r) returns
\* exactly p for every plaintext, key and side tag; LockerCrypto.decrypt is no
\* inverse, it raises NotImplementedError whatever it is given.
C1_SelfInverseXorStream ==
    /\ (dec.call = "decrypt_xor_stream" /\ SameKeyAndBlob /\ dec.role = enc.role)
           => dec.out = Returned(enc.plaintext)
    /\ dec.call = "LockerCrypto.decrypt" => dec.out = Raised("NotImplementedError")

\* a plaintext of two bytes, changed by the encryption, has come back
C1_Witness ==
    /\ dec.call = "decrypt_xor_stream"
    /\ SameKeyAndBlob
    /\ dec.role = enc.role
    /\ Len(enc.plaintext) >= 2
    /\ SubSeq(enc.blob, SaltLen + 1, Len(enc.blob)) # enc.plaintext
    /\ dec.out = Returned(enc.plaintext)

\* the seed the encryption `call` derives for `role` from key, salt and nonce
SeedFor(call, key, salt, nonce, role) ==
    IF call = "encrypt_xor_stream"
    THEN fnv1a32(seed_material(key, nonce, role), FNV_OFFSET)
    ELSE _derive_seed32(key, salt, nonce)

\* C2: the role tag is part of the seed material: for the same key, salt and nonce
\* the seed derived for 'client' differs from the one derived for 'server', and a
\* blob made for one side does not decrypt to its plaintext under the other
\* side's role tag.
C2_RoleBinding ==
    /\ enc.call # "none" =>
           SeedFor(enc.call, enc.key, enc.salt, enc.nonce, Client)
               # SeedFor(enc.call, enc.key, enc.salt, enc.nonce, Server)
    /\ (SameKeyAndBlob /\ dec.role # enc.role /\ enc.plaintext # <<>>)
           => dec.out # Returned(enc.plaintext)

\* C3: the bytes folded are exactly key || salt || nonce || role_tag, in that
\* order, nothing else inserted, and the seed is their 32-bit FNV-1a hash from
\* 0x811C9DC5 with the prime 0x01000193.
C3_SeedMaterial ==
    enc.call # "none" =>
        /\ enc.material = enc.key \o enc.salt \o enc.nonce \o enc.role
        /\ enc.seed = FnvFold(FNV_OFFSET, enc.material, 1, Len(enc.material), FNV_PRIME)

\* C4, as stated: decrypt on a blob shorter than len(tag)+len(nonce) fails with the
\* MalformedBlob error (the ValueError of decrypt_xor_stream) and returns no
\* plaintext; on a blob of at least that length it does not raise that error.
C4_Malformed ==
    dec.call \in PythonDecrypts =>
        IF Len(dec.blob) < HeaderLen(dec.call)
        THEN dec.out = Raised("ValueError")
        ELSE dec.out.raised # "ValueError"

\* C4, amended: decrypt_xor_stream raises the ValueError exactly on the blobs
\* shorter than its 8 bytes of salt (it has no tag) and returns bytes otherwise;
\* LockerCrypto.decrypt raises NotImplementedError on every blob, short or not.
C4_MalformedXorStream ==
    /\ dec.call = "decrypt_xor_stream" =>
           IF Len(dec.blob) < SaltLen
           THEN dec.out = Raised("ValueError")
           ELSE dec.out.raised = "none"
    /\ dec.call = "LockerCrypto.decrypt" => dec.out = Raised("NotImplementedError")

\* decrypt_xor_stream was given the 7 bytes that are one short of the salt
C4_Witness ==
    /\ dec.call = "decrypt_xor_stream"
    /\ Len(dec.blob) = SaltLen - 1
    /\ dec.out = Raised("ValueError")

\* C10: the loader cuts the blob where the encoder wrote it, folds the same seed
\* material in the same order and makes the same keystream, so for every
\* plaintext, key, salt and nonce its decrypt of LockerCrypto.encrypt's output is
\* the plaintext.
C10_LoaderAgreement ==
    (dec.call = "loader.decrypt" /\ SameKeyAndBlob)
        => /\ split_tag(dec.blob) = <<XRF_TAG, enc.nonce,
                                      SubSeq(enc.blob, Len(XRF_TAG) + NonceLen + 1, Len(enc.blob))>>
           /\ dec.out = Returned(enc.plaintext)

\* The same for the salts that read as themselves inside the loader's quotes
LoaderAgreementForLiteralSalts ==
    (dec.call = "loader.decrypt" /\ SameKeyAndBlob /\ loader_salt(enc.salt) = Returned(enc.salt))
        => dec.out = Returned(enc.plaintext)

-----------------------------------------------------------------------------
(* Properties of process_resource, checked under Spec                       *)

\* both blobs of the run have been built
Built == run.pc \in {"loaders", "new_manifest", "done"}

\* the contents of a bundle in the order of its sorted names
SortedContents(bundled) ==
    LET files == sorted(dict_keys(bundled))
    IN  [i \in 1..Len(files) |-> dict_get(bundled, files[i])]

\* the parts main() of the loader hands to run_bundle for a decrypted payload
RecoveredParts(payload) == explode_bundle(split_meta(payload).value[2])

RoundTrip(bundled, payload) ==
    /\ split_meta(payload).raised = "none"
    /\ RecoveredParts(payload) = SortedContents(bundled)

\* C5: for a bundle of 0..N uniquely named contents, splitting the serialized
\* plaintext the way the loader does gives back the contents, as many parts as
\* there are files (also for 0 files), in the order of the sorted names.
C5_BundleRoundTrip ==
    Built => /\ RoundTrip(run.bundled_client, run.payload_client)
             /\ RoundTrip(run.bundled_server, run.payload_server)

\* the round trip of the bundles that hold at least one file
RoundTripOfNonEmptyBundles ==
    Built => /\ run.bundled_client # <<>>
                    => RoundTrip(run.bundled_client, run.payload_client)
             /\ run.bundled_server # <<>>
                    => RoundTrip(run.bundled_server, run.payload_server)

\* the loop of process_resource has gone through the script p
Handled(p) ==
    /\ run.pc \in {"files", "loaders", "new_manifest", "done"}
    /\ p \in fs.files \ run.todo
    /\ is_lua(p)
    /\ ~is_manifest_name(p)

\* p is in none of the three script lists of the manifest
Unlisted(p) ==
    /\ ~InList(p, fs.manifest.client_scripts)
    /\ ~InList(p, fs.manifest.server_scripts)
    /\ ~InList(p, fs.manifest.shared_scripts)

InBundle(p, bundled) == InList(p, dict_keys(bundled))

\* C7, as stated: every script whose path is in none of the manifest's
\* client, server and shared lists is placed in the server bundle, paths under
\* client/ or shared/ included.
C7_ClassifierFallback ==
    \A p \in fs.files : (Handled(p) /\ Unlisted(p)) => InBundle(p, run.bundled_server)

\* C7, amended: a script in none of the lists is placed in the server bundle
\* unless its path starts with "client/"; one whose path starts with "client/"
\* is placed in the client bundle and not in the server bundle.
C7_FallbackOutsideClientDir ==
    \A p \in fs.files :
        (Handled(p) /\ Unlisted(p)) =>
            IF startswith(p, CLIENT_DIR)
            THEN InBundle(p, run.bundled_client) /\ ~InBundle(p, run.bundled_server)
            ELSE InBundle(p, run.bundled_server)

\* a run has ended that took b.lua, in no list, to the server bundle only and
\* client/a.lua, in no list, to the client bundle only
C7_Witness ==
    /\ run.pc = "done"
    /\ Handled(B_LUA) /\ Unlisted(B_LUA)
    /\ InBundle(B_LUA, run.bundled_server) /\ ~InBundle(B_LUA, run.bundled_client)
    /\ Handled(CLIENT_A) /\ Unlisted(CLIENT_A)
    /\ InBundle(CLIENT_A, run.bundled_client) /\ ~InBundle(CLIENT_A, run.bundled_server)

HasFile(dir, path) == \E f \in dir.files : f.path = path

\* C8: after a successful run the output directory holds the blob file of a
\* side if and only if the bundle of that side is not empty.
C8_EmptySide ==
    run.pc = "done" =>
        /\ HasFile(outdir, CLIENT_BLOB) <=> run.bundled_client # <<>>
        /\ HasFile(outdir, SERVER_BLOB) <=> run.bundled_server # <<>>

\* C9: when the resource directory or the manifest file is missing, the run
\* does not get past its checks, it ends with a not-found error, and the output
\* directory is as it was before the run: not cleared, created or written to.
C9_NotFoundAborts ==
    (~fs.res_exists \/ ~fs.manifest.present) =>
        /\ run.pc \in {"start", "failed"}
        /\ run.pc = "failed" => run.error = "FileNotFoundError"
        /\ outdir = fs.out0

\* a missing resource directory does abort the run with the output untouched
MissingResourceAborts ==
    ~fs.res_exists =>
        /\ run.pc \in {"start", "failed"}
        /\ run.pc = "failed" => run.error = "FileNotFoundError"
        /\ outdir = fs.out0

-----------------------------------------------------------------------------
(* Properties of pack_resource, checked under SpecPacker                    *)

\* the decimal number that ends at the next newline of blob, from index i on,
\* and the index behind that newline
RECURSIVE ReadInt(_, _, _)
ReadInt(blob, i, acc) ==
    IF blob[i] = 10 THEN <<acc, i + 1>>
    ELSE ReadInt(blob, i + 1, acc * 10 + (blob[i] - 48))

\* the names of the entries "P:<n>\n<name>C:<n>\n<code>" of blob from index i on
RECURSIVE EntryNames(_, _)
EntryNames(blob, i) ==
    IF i > Len(blob) THEN <<>>
    ELSE LET p == ReadInt(blob, i + 2, 0)
             c == ReadInt(blob, p[2] + p[1] + 2, 0)
         IN  <<SubSeq(blob, p[2], p[2] + p[1] - 1)>> \o EntryNames(blob, c[2] + c[1])

\* the names a serialized bundle "FLOK1\nN:<n>\n..." holds, in its order
SerializedNames(blob) == EntryNames(blob, ReadInt(blob, Len(FLOK_HEADER) + 3, 0)[2])

\* no name of the list comes before its predecessor
InSortedOrder(names) == \A i \in 1..(Len(names) - 1) : ~LexLess(names[i + 1], names[i])

\* C6: every serialized bundle holds its files in lexicographically sorted name
\* order, whatever the order of the manifest's listing.
C6_CanonicalOrdering ==
    /\ run.client_blob # <<>> => InSortedOrder(SerializedNames(run.client_blob))
    /\ run.server_blob # <<>> => InSortedOrder(SerializedNames(run.server_blob))

\* the names a serialized bundle holds are the files gathered for its side
SerializedNamesAreGathered ==
    /\ run.client_blob # <<>> => SerializedNames(run.client_blob) = run.client_files
    /\ run.server_blob # <<>> => SerializedNames(run.server_blob) = run.server_files

-----------------------------------------------------------------------------
(* The layout of a blob, checked under SpecCrypto                           *)

\* the i-th value of the generator of the encryption `call`, started from seed
RECURSIVE Iterate(_, _, _)
Iterate(call, seed, i) ==
    IF i = 0 THEN seed
    ELSE LET prev == Iterate(call, seed, i - 1)
         IN  IF call = "encrypt_xor_stream" THEN xorshift32(prev) ELSE _xorshift32(prev)

\* the blob of the encryption is tag, then the random bytes drawn, then one byte
\* for each byte of the plaintext: that byte XOR the low byte of the generator
LayoutWithTag(tag) ==
    LET n == Len(enc.plaintext)
        h == Len(tag) + Len(enc.nonce)
    IN  /\ Len(enc.blob) = h + n
        /\ SubSeq(enc.blob, 1, Len(tag)) = tag
        /\ SubSeq(enc.blob, Len(tag) + 1, h) = enc.nonce
        /\ \A i \in 1..n :
              enc.blob[h + i]
                  = BitXor(enc.plaintext[i], LowByte(Iterate(enc.call, enc.seed, i)), 8)

\* the length of the random part does not depend on the input
FixedNonceLen ==
    Len(enc.nonce) = IF enc.call = "encrypt_xor_stream" THEN SaltLen ELSE NonceLen

\* C11, as stated: encrypt returns tag || nonce || ciphertext with a tag that
\* identifies the scheme (one byte at least), a nonce of fixed length and a
\* ciphertext of len(plaintext) bytes, byte i being plaintext[i] XOR keystream[i].
C11_BlobLayout ==
    enc.call # "none" =>
        /\ FixedNonceLen
        /\ \E t \in 1..Len(enc.blob) : LayoutWithTag(SubSeq(enc.blob, 1, t))

\* C11, amended: LockerCrypto.encrypt returns b"XRF\0" || nonce(12) || ciphertext
\* and encrypt_xor_stream returns salt(8) || ciphertext with no tag; in both the
\* ciphertext has len(plaintext) bytes and byte i is plaintext[i] XOR keystream[i].
C11_BlobLayoutPerScheme ==
    enc.call # "none" =>
        /\ FixedNonceLen
        /\ LayoutWithTag(IF enc.call = "encrypt_xor_stream" THEN <<>> ELSE XRF_TAG)

\* a blob of one of the two layouts has been produced for a plaintext of two
\* bytes, which the encryption changed
C11_Witness ==
    /\ enc.call \in {"encrypt_xor_stream", "LockerCrypto.encrypt"}
    /\ Len(enc.plaintext) = 2
    /\ Len(enc.blob) = (IF enc.call = "encrypt_xor_stream" THEN 10 ELSE 18)
    /\ SubSeq(enc.blob, Len(enc.blob) - 1, Len(enc.blob)) # enc.plaintext

-----------------------------------------------------------------------------
(* Names of a bundle, checked under SpecPacker and Spec                     *)

NoDuplicates(names) ==
    \A i \in 1..Len(names) : \A j \in 1..Len(names) : names[i] = names[j] => i = j

\* C12: every bundle the pipeline serializes holds each relative path at most
\* once, also when a file is listed under a side listing and the shared listing
\* or matched by more than one entry.
C12_UniqueNames ==
    /\ run.client_blob # <<>> => NoDuplicates(SerializedNames(run.client_blob))
    /\ run.server_blob # <<>> => NoDuplicates(SerializedNames(run.server_blob))

\* one call of _gather_files returns no path twice
GatheredOnceEach ==
    /\ NoDuplicates(_gather_files(fs, fs.manifest.client_scripts))
    /\ NoDuplicates(_gather_files(fs, fs.manifest.server_scripts))
    /\ NoDuplicates(_gather_files(fs, fs.manifest.shared_scripts))

\* the bundles of process_resource hold each path at most once
UniqueNamesInDicts ==
    /\ NoDuplicates(dict_keys(run.bundled_client))
    /\ NoDuplicates(dict_keys(run.bundled_server))

-----------------------------------------------------------------------------
(* The side of a script and its bundles, checked under SpecPacker and Spec  *)

\* the names the client and the server bundle of pack_resource hold
PackedClient == IF run.client_blob = <<>> THEN <<>> ELSE SerializedNames(run.client_blob)
PackedServer == IF run.server_blob = <<>> THEN <<>> ELSE SerializedNames(run.server_blob)

\* the scripts of the resource that pack_resource finds in a list of the manifest
ListedScript(p, list) == p \in fs.files /\ is_lua(p) /\ InList(p, list)

SharedScript(p) == ListedScript(p, fs.manifest.shared_scripts)
ClientOnlyScript(p) ==
    /\ ListedScript(p, fs.manifest.client_scripts)
    /\ ~InList(p, fs.manifest.server_scripts)
    /\ ~InList(p, fs.manifest.shared_scripts)
ServerOnlyScript(p) ==
    /\ ListedScript(p, fs.manifest.server_scripts)
    /\ ~InList(p, fs.manifest.client_scripts)
    /\ ~InList(p, fs.manifest.shared_scripts)

\* C13, as stated: a shared script is in the client bundle and in the server
\* bundle, a script that is only client is in the client bundle and not in the
\* server bundle, a script that is only server is in the server bundle and not
\* in the client bundle.
C13_SidePartition ==
    run.pc = "done" =>
        \A p \in fs.files :
            /\ SharedScript(p) => InList(p, PackedClient) /\ InList(p, PackedServer)
            /\ ClientOnlyScript(p) => InList(p, PackedClient) /\ ~InList(p, PackedServer)
            /\ ServerOnlyScript(p) => InList(p, PackedServer) /\ ~InList(p, PackedClient)

\* C13, amended: the same for the sides the run builds: a shared script is in
\* every bundle that is built, a script that is only client is in the client
\* bundle if that is built and never in the server bundle, a script that is only
\* server is in the server bundle if that is built and never in the client bundle.
C13_SidePartitionOfBuiltSides ==
    run.pc = "done" =>
        \A p \in fs.files :
            /\ SharedScript(p) =>
                   /\ fs.include_client => InList(p, PackedClient)
                   /\ fs.include_server => InList(p, PackedServer)
            /\ ClientOnlyScript(p) =>
                   /\ fs.include_client => InList(p, PackedClient)
                   /\ ~InList(p, PackedServer)
            /\ ServerOnlyScript(p) =>
                   /\ fs.include_server => InList(p, PackedServer)
                   /\ ~InList(p, PackedClient)

\* a run that built both sides put the shared z.lua into both bundles and b.lua,
\* only client, into the client bundle alone
C13_Witness ==
    /\ run.pc = "done"
    /\ fs.include_client /\ fs.include_server
    /\ SharedScript(Z_LUA) /\ InList(Z_LUA, PackedClient) /\ InList(Z_LUA, PackedServer)
    /\ ClientOnlyScript(B_LUA) /\ InList(B_LUA, PackedClient) /\ ~InList(B_LUA, PackedServer)

\* process_resource, which always builds both sides: the partition by is_client,
\* is_server and is_shared
SidePartitionOfProcessResource ==
    \A p \in fs.files :
        Handled(p) =>
            LET c == is_client(p, run.manifest)
                s == is_server(p, run.manifest)
                h == is_shared(p, run.manifest)
            IN  /\ h => InBundle(p, run.bundled_client) /\ InBundle(p, run.bundled_server)
                /\ (c /\ ~s /\ ~h) =>
                       InBundle(p, run.bundled_client) /\ ~InBundle(p, run.bundled_server)
                /\ (s /\ ~c /\ ~h) =>
                       InBundle(p, run.bundled_server) /\ ~InBundle(p, run.bundled_client)

-----------------------------------------------------------------------------
(* Calls of the hash and generator functions of both crypto.py on seeds and *)
(* states of any size, with the values their variables take line by line    *)

\* the values of x after lines 20, 21 and 22 of xorshift32(x)
xorshift32_values(x) ==
    LET x1 == PyXor(x, Mask32(PyShl(x, 13)))
        x2 == PyXor(x1, Mask32(PyShr(x1, 17)))
        x3 == PyXor(x2, Mask32(PyShl(x2, 5)))
    IN  <<x1, x2, x3>>

\* the values of x after lines 16, 17, 18 and 19 of _xorshift32(seed)
_xorshift32_values(seed) ==
    LET x0 == Mask32(seed)
        x1 == PyXor(x0, Mask32(PyShl(x0, 13)))
        x2 == PyXor(x1, Mask32(PyShr(x1, 17)))
        x3 == PyXor(x2, Mask32(PyShl(x2, 5)))
    IN  <<x0, x1, x2, x3>>

\* the values of the accumulator after the two lines of the loop of fnv1a32 and
\* of _fnv1a32, for data[i..]
RECURSIVE fnv_values(_, _, _)
fnv_values(value, data, i) ==
    IF i > Len(data) THEN <<>>
    ELSE LET xored == PyXor(value, OfByte(data[i]))
             reduced == MulMask32(xored, FNV_PRIME)
         IN  <<xored, reduced>> \o fnv_values(reduced, data, i + 1)

\* the values of `state` in n rounds of the loop of keystream, with those of x
\* inside each call of xorshift32
RECURSIVE keystream_values(_, _)
keystream_values(state, n) ==
    IF n = 0 THEN <<>>
    ELSE xorshift32_values(state) \o <<xorshift32(state)>>
             \o keystream_values(xorshift32(state), n - 1)

\* the same for the loop of _keystream
RECURSIVE _keystream_values(_, _)
_keystream_values(x, n) ==
    IF n = 0 THEN <<>>
    ELSE _xorshift32_values(x) \o <<_xorshift32(x)>>
             \o _keystream_values(_xorshift32(x), n - 1)

\* 0, 1, 0x811C9DC5, 2^32 - 1 and, not below 2^32: 2^32, 2^34 + 1,
\* 0x1234811C9DC5, 2^48 - 1
SeedArguments == {<<0, 0, 0>>, <<1, 0, 0>>, FNV_OFFSET, <<65535, 65535, 0>>,
                  <<0, 0, 1>>, <<1, 0, 4>>, <<40389, 33052, 4660>>,
                  <<65535, 65535, 65535>>}

WidthInit ==
    /\ inp \in [seed : SeedArguments, data : Plaintexts, length : 0..MaxPlainLen]
    /\ enc = NoEnc
    /\ dec = NoDec
    /\ fs = NoFs
    /\ outdir = NoOutdir
    /\ run = NoRun

\* fnv1a32(data, seed)
CallFnv1a32 ==
    /\ enc.call = "none"
    /\ enc' = [call |-> "fnv1a32", seed |-> inp.seed,
               values |-> <<Mask32(inp.seed)>> \o fnv_values(Mask32(inp.seed), inp.data, 1),
               ret |-> fnv1a32(inp.data, inp.seed)]
    /\ UNCHANGED <<inp, dec>>
    /\ UNCHANGED pvars

\* _fnv1a32(data)
Call_fnv1a32 ==
    /\ enc.call = "none"
    /\ enc' = [call |-> "_fnv1a32", seed |-> FNV_OFFSET,
               values |-> <<FNV_OFFSET>> \o fnv_values(FNV_OFFSET, inp.data, 1),
               ret |-> _fnv1a32(inp.data)]
    /\ UNCHANGED <<inp, dec>>
    /\ UNCHANGED pvars

\* xorshift32(x)
CallXorshift32 ==
    /\ enc.call = "none"
    /\ enc' = [call |-> "xorshift32", seed |-> inp.seed,
               values |-> xorshift32_values(inp.seed), ret |-> xorshift32(inp.seed)]
    /\ UNCHANGED <<inp, dec>>
    /\ UNCHANGED pvars

\* _xorshift32(seed)
Call_xorshift32 ==
    /\ enc.call = "none"
    /\ enc' = [call |-> "_xorshift32", seed |-> inp.seed,
               values |-> _xorshift32_values(inp.seed), ret |-> _xorshift32(inp.seed)]
    /\ UNCHANGED <<inp, dec>>
    /\ UNCHANGED pvars

\* keystream(length, seed)
CallKeystream ==
    /\ enc.call = "none"
    /\ enc' = [call |-> "keystream", seed |-> inp.seed,
               values |-> <<Mask32(inp.seed)>>
                              \o keystream_values(Mask32(inp.seed), inp.length),
               ret |-> keystream(inp.length, inp.seed)]
    /\ UNCHANGED <<inp, dec>>
    /\ UNCHANGED pvars

\* _keystream(seed, length)
Call_keystream ==
    /\ enc.call = "none"
    /\ enc' = [call |-> "_keystream", seed |-> inp.seed,
               values |-> _keystream_values(inp.seed, inp.length),
               ret |-> _keystream(inp.seed, inp.length)]
    /\ UNCHANGED <<inp, dec>>
    /\ UNCHANGED pvars

WidthNext ==
    \/ CallFnv1a32
    \/ Call_fnv1a32
    \/ CallXorshift32
    \/ Call_xorshift32
    \/ CallKeystream
    \/ Call_keystream

SpecWidth == WidthInit /\ [][WidthNext]_vars

-----------------------------------------------------------------------------
(* The width of the values, checked under SpecWidth                         *)

\* 0 <= x < 2^32
InRange32(x) == x[1] \in 0..(W16 - 1) /\ x[2] \in 0..(W16 - 1) /\ x[3] = 0

AllInRange32(values) == \A i \in 1..Len(values) : InRange32(values[i])

\* the i-th value of the generator started from the seed reduced modulo 2^32
IterateReduced(call, seed, i) ==
    Iterate(IF call = "keystream" THEN "encrypt_xor_stream" ELSE "LockerCrypto.encrypt",
            Mask32(seed), i)

\* the n bytes a keystream call returned are the low bytes of the iterates
LowBytesOfIterates ==
    enc.call \in {"keystream", "_keystream"} =>
        /\ Len(enc.ret) = inp.length
        /\ \A i \in 1..inp.length :
              enc.ret[i] = IterateReduced(enc.call, enc.seed, i)[1] % 256

Width32ForStatesInRange ==
    /\ (enc.call # "none" /\ (enc.call = "xorshift32" => InRange32(enc.seed)))
           => AllInRange32(enc.values)
    /\ enc.call \in {"fnv1a32", "_fnv1a32", "xorshift32", "_xorshift32"}
           => InRange32(enc.ret)
    /\ LowBytesOfIterates

\* the two xorshift32 return the same for the same argument
SameXorshift32 == xorshift32(inp.seed) = _xorshift32(inp.seed)

-----------------------------------------------------------------------------
(* No script in the clear, checked under Spec                               *)

\* the path ends in .lua, in either case
EndsInLua(path) ==
    Len(path) >= 4 /\ lower(SubSeq(path, Len(path) - 3, Len(path))) = LUA_SUFFIX

\* the .lua files of the resource that are not named as a manifest
Scripts == {p \in fs.files : EndsInLua(p) /\ ~is_manifest_name(p)}

Copied == {f \in outdir.files : f.kind = "copy"}

Bundles(p) ==
    {d \in {run.bundled_client, run.bundled_server} : InList(p, dict_keys(d))}

\* C15: after a run of process_resource that succeeded, every .lua file of the
\* resource that is not named fxmanifest.lua or __resource.lua is in the client
\* bundle or in the server bundle, minified, none of them was copied to the
\* output directory, and every file that was copied there is not a .lua file
\* and holds the bytes of its source.
C15_NoPlaintextScript ==
    run.pc = "done" =>
        /\ \A p \in Scripts :
              /\ Bundles(p) # {}
              /\ \A d \in Bundles(p) : dict_get(d, p) = minify_lua(SourceOf(p))
              /\ ~\E f \in Copied : f.path = p
        /\ \A f \in Copied :
              /\ ~EndsInLua(f.path)
              /\ f.path \in fs.files
              /\ f.bytes = SourceOf(f.path)

\* a run succeeded on a resource of a script no list names and an image: the
\* script is in a bundle and the image was copied
C15_Witness ==
    /\ run.pc = "done"
    /\ fs.files = {Z_LUA, IMG_PNG}
    /\ ~InList(Z_LUA, run.manifest.client_scripts)
    /\ Bundles(Z_LUA) # {}
    /\ \E f \in Copied : f.path = IMG_PNG

\* a file named as a manifest in a directory below the root is neither in a
\* bundle nor copied
NestedManifestNameLeftOut ==
    LET nested == <<97, 47>> \o FXMANIFEST
    IN  (run.pc = "done" /\ nested \in fs.files) =>
            /\ Bundles(nested) = {}
            /\ ~\E f \in outdir.files : f.path = nested

=============================================================================
